---- MODULE Spec2Model ----
(***************************************************************************)
(* Model of fix_to_csv.py: the FIX tag=value tokenizer (parse_fix_line),   *)
(* the order/fill loader (load_orders_and_fills) and the fill correlator   *)
(* (build_rows), run in the order main() runs them.                        *)
(*                                                                         *)
(* A Python str is a sequence of one-character strings.  A dict is a       *)
(* function whose domain is the set of its keys.  None is a value that is  *)
(* no str.                                                                 *)
(***************************************************************************)
EXTENDS Naturals, Sequences, FiniteSets, TLC

VARIABLES lines, orders_by_id, fills, rows, pc, cur, fillSrc, rowSrc,
          tokFields, tokOut

vars == <<lines, orders_by_id, fills, rows, pc, cur, fillSrc, rowSrc,
          tokFields, tokOut>>

(***************************************************************************)
(* Bounds of the model.                                                    *)
(***************************************************************************)
MaxLines == 3     \* lines of one input log
MaxFields == 2    \* fields of one tokenizer input
MaxValLen == 1    \* characters of one field value of a tokenizer input

(***************************************************************************)
(* Characters and the constants of fix_to_csv.py.                          *)
(***************************************************************************)
SOH == "\\x01"
PIPE == "|"
EQ == "="
NL == "\n"
Whitespace == {" ", "\t", "\n", "\r", "\f"}

None == <<"None">>

TAG_MSGTYPE == <<"3", "5">>
TAG_CLORDID == <<"1", "1">>
TAG_ORIGCLORDID == <<"4", "1">>
TAG_TRANSACTTIME == <<"6", "0">>
TAG_SYMBOL == <<"5", "5">>
TAG_SIDE == <<"5", "4">>
TAG_ORDERQTY == <<"3", "8">>
TAG_ORDTYPE == <<"4", "0">>
TAG_PRICE == <<"4", "4">>
TAG_EXECTYPE == <<"1", "5", "0">>
TAG_ORDSTATUS == <<"3", "9">>
TAG_AVGPX == <<"6">>
TAG_LASTMKT == <<"3", "0">>

MSG_NEW_ORDER_SINGLE == <<"D">>
MSG_EXEC_REPORT == <<"8">>
EXECTYPE_FILL == <<"2">>
ORDSTATUS_FILLED == <<"2">>
ORDTYPE_LIMIT == <<"2">>

(***************************************************************************)
(* str and dict primitives.                                                *)
(***************************************************************************)
Contains(s, c) == \E k \in 1..Len(s) : s[k] = c

FirstIndex(s, c) == CHOOSE k \in 1..Len(s) : s[k] = c /\ \A j \in 1..(k - 1) : s[j] # c

\* str.strip(): drop the leading and the trailing whitespace
Strip(s) ==
    LET keep == {k \in 1..Len(s) : s[k] \notin Whitespace}
    IN  IF keep = {} THEN <<>>
        ELSE LET lo == CHOOSE k \in keep : \A j \in keep : k <= j
                 hi == CHOOSE k \in keep : \A j \in keep : j <= k
             IN  SubSeq(s, lo, hi)

\* str.split(sep) for a one-character sep: every occurrence separates
RECURSIVE Split(_, _)
Split(s, sep) ==
    IF ~Contains(s, sep) THEN <<s>>
    ELSE LET k == FirstIndex(s, sep)
         IN  <<SubSeq(s, 1, k - 1)>> \o Split(SubSeq(s, k + 1, Len(s)), sep)

\* re.split(r"\s+", s): every maximal run of whitespace separates
RECURSIVE SplitWhitespace(_)
SplitWhitespace(s) ==
    LET ws == {k \in 1..Len(s) : s[k] \in Whitespace}
    IN  IF ws = {} THEN <<s>>
        ELSE LET k == CHOOSE a \in ws : \A b \in ws : a <= b
                 after == {j \in (k + 1)..Len(s) : s[j] \notin Whitespace}
                 nxt == IF after = {} THEN Len(s) + 1
                        ELSE CHOOSE a \in after : \A b \in after : a <= b
             IN  <<SubSeq(s, 1, k - 1)>> \o SplitWhitespace(SubSeq(s, nxt, Len(s)))

EmptyDict == <<>>

\* d[k] = v
DictSet(d, k, v) == [x \in DOMAIN d \cup {k} |-> IF x = k THEN v ELSE d[x]]

\* d.get(k)
Get(d, k) == IF k \in DOMAIN d THEN d[k] ELSE None

\* d.get(k, "")
GetOrEmpty(d, k) == IF k \in DOMAIN d THEN d[k] ELSE <<>>

\* Python truth of an Optional[str]: None and "" are false
Truthy(v) == v # None /\ v # <<>>

\* a or b
Or(a, b) == IF Truthy(a) THEN a ELSE b

(***************************************************************************)
(* parse_fix_line                                                          *)
(***************************************************************************)
\* the delimiter cascade: SOH, else '|', else runs of whitespace
SplitFields(line) ==
    IF Contains(line, SOH) THEN Split(line, SOH)
    ELSE IF Contains(line, PIPE) THEN Split(line, PIPE)
    ELSE SplitWhitespace(line)

\* a cascade that lacks the '|' branch
SplitFieldsNoPipe(line) ==
    IF Contains(line, SOH) THEN Split(line, SOH)
    ELSE SplitWhitespace(line)

\* the loop over the fields: skip "" and fields without '=', split the others
\* on the first '=' and assign msg[k] = v
RECURSIVE CollectFields(_, _)
CollectFields(fs, msg) ==
    IF fs = <<>> THEN msg
    ELSE LET f == Head(fs)
         IN  IF f = <<>> \/ ~Contains(f, EQ) THEN CollectFields(Tail(fs), msg)
             ELSE LET k == FirstIndex(f, EQ)
                  IN  CollectFields(Tail(fs),
                          DictSet(msg, SubSeq(f, 1, k - 1), SubSeq(f, k + 1, Len(f))))

parse_fix_line_no_pipe(line) ==
    LET s == Strip(line)
    IN  IF s = <<>> THEN EmptyDict ELSE CollectFields(SplitFieldsNoPipe(s), EmptyDict)

parse_fix_line(line) ==
    LET s == Strip(line)
    IN  IF s = <<>> THEN EmptyDict ELSE CollectFields(SplitFields(s), EmptyDict)

(***************************************************************************)
(* Tokenizer inputs: a sequence of identifier=value fields, written out    *)
(* with one of the three delimiter conventions.                            *)
(***************************************************************************)
RECURSIVE Join(_, _)
Join(fs, sep) ==
    IF fs = <<>> THEN <<>>
    ELSE IF Len(fs) = 1 THEN Head(fs)
    ELSE Head(fs) \o sep \o Join(Tail(fs), sep)

Field(k, v) == k \o <<EQ>> \o v

SeqsUpTo(S, n) == UNION {[1..m -> S] : m \in 0..n}

TokIdents == {<<"a">>, <<"b">>}
TokValueChars == {"x", EQ, PIPE, " "}
TokValues == SeqsUpTo(TokValueChars, MaxValLen)
TokPairs == TokIdents \X TokValues
WhitespaceSeps == {<<" ">>, <<" ", " ">>, <<"\t">>}

\* tokOut before parse_fix_line has run
NotRun == [soh |-> EmptyDict, pipe |-> EmptyDict, space |-> EmptyDict, ws |-> <<>>]

\* the text of the fields fs joined with sep
TokLine(fs, sep) == Join([k \in 1..Len(fs) |-> Field(fs[k][1], fs[k][2])], sep)

(***************************************************************************)
(* load_orders_and_fills: the body of its loop, for one line.              *)
(***************************************************************************)
\* the dict stored for a New Order Single
StoredOrder(msg, clid, ordtype) ==
    [t \in {TAG_CLORDID, TAG_TRANSACTTIME, TAG_SYMBOL, TAG_SIDE, TAG_ORDERQTY,
            TAG_PRICE, TAG_ORDTYPE} |->
        IF t = TAG_CLORDID THEN clid
        ELSE IF t = TAG_ORDTYPE THEN ordtype
        ELSE GetOrEmpty(msg, t)]

\* a filter that takes an absent order type for a limit order
IsLimitOrAbsent(ordtype) == ordtype = ORDTYPE_LIMIT \/ ordtype = None

\* "Only store LIMIT orders"
IsLimit(ordtype) == ordtype = ORDTYPE_LIMIT

\* a store that keeps the first order of an identifier
PutOrderKeepFirst(orders, msg) ==
    LET clid == Get(msg, TAG_CLORDID)
        ordtype == Get(msg, TAG_ORDTYPE)
    IN  IF ~Truthy(clid) THEN orders
        ELSE IF ~IsLimit(ordtype) THEN orders
        ELSE IF clid \in DOMAIN orders THEN orders
        ELSE DictSet(orders, clid, StoredOrder(msg, clid, ordtype))

\* the New Order Single branch: orders_by_id after the line
PutOrder(orders, msg) ==
    LET clid == Get(msg, TAG_CLORDID)
        ordtype == Get(msg, TAG_ORDTYPE)
    IN  IF ~Truthy(clid) THEN orders
        ELSE IF ~IsLimit(ordtype) THEN orders
        ELSE DictSet(orders, clid, StoredOrder(msg, clid, ordtype))

\* a filter that reads the execution type alone
IsFullFillByExecType(msg) == Get(msg, TAG_EXECTYPE) = EXECTYPE_FILL

\* "only full fills; ignore partials/rejects"
IsFullFill(msg) ==
    /\ Get(msg, TAG_EXECTYPE) = EXECTYPE_FILL
    /\ Get(msg, TAG_ORDSTATUS) = ORDSTATUS_FILLED

\* what one iteration of the loop does with a parsed line
IsOrderLine(msg) == msg # EmptyDict /\ Get(msg, TAG_MSGTYPE) = MSG_NEW_ORDER_SINGLE
IsFillLine(msg) ==
    /\ msg # EmptyDict
    /\ Get(msg, TAG_MSGTYPE) # MSG_NEW_ORDER_SINGLE
    /\ Get(msg, TAG_MSGTYPE) = MSG_EXEC_REPORT
    /\ IsFullFill(msg)

(***************************************************************************)
(* build_rows: the body of its loop, for one fill.                         *)
(***************************************************************************)
\* a resolution that prefers the fill's own identifier
ResolveClOrdIDOwnFirst(ex) == Or(Get(ex, TAG_CLORDID), Get(ex, TAG_ORIGCLORDID))

\* ex.get(TAG_ORIGCLORDID) or ex.get(TAG_CLORDID)
ResolveClOrdID(ex) == Or(Get(ex, TAG_ORIGCLORDID), Get(ex, TAG_CLORDID))

\* orders_by_id.get(clid), and "if not order"
LookupOrder(orders, clid) == Get(orders, clid)
OrderFound(order) == order # None /\ order # EmptyDict

\* a check that wants the execution report to repeat the limit order type
ExecTypeOkStrict(ex) == Get(ex, TAG_ORDTYPE) = ORDTYPE_LIMIT

\* the check on the order type the execution report repeats
ExecTypeOk(ex) ==
    LET ordtype_exec == Get(ex, TAG_ORDTYPE)
    IN  ~(ordtype_exec # None /\ ordtype_exec # ORDTYPE_LIMIT)

\* a row that prefers the symbol, side and quantity the fill echoes
ComposeRowEchoFirst(order, ex) ==
    << GetOrEmpty(order, TAG_CLORDID),
       GetOrEmpty(order, TAG_TRANSACTTIME),
       GetOrEmpty(ex, TAG_TRANSACTTIME),
       Or(GetOrEmpty(ex, TAG_SYMBOL), GetOrEmpty(order, TAG_SYMBOL)),
       Or(GetOrEmpty(ex, TAG_SIDE), GetOrEmpty(order, TAG_SIDE)),
       Or(GetOrEmpty(ex, TAG_ORDERQTY), GetOrEmpty(order, TAG_ORDERQTY)),
       GetOrEmpty(order, TAG_PRICE),
       GetOrEmpty(ex, TAG_AVGPX),
       GetOrEmpty(ex, TAG_LASTMKT) >>

\* a row whose two times both come from the order
ComposeRowOrderTimeTwice(order, ex) ==
    << GetOrEmpty(order, TAG_CLORDID),
       GetOrEmpty(order, TAG_TRANSACTTIME),
       GetOrEmpty(order, TAG_TRANSACTTIME),
       Or(GetOrEmpty(order, TAG_SYMBOL), GetOrEmpty(ex, TAG_SYMBOL)),
       Or(GetOrEmpty(order, TAG_SIDE), GetOrEmpty(ex, TAG_SIDE)),
       Or(GetOrEmpty(order, TAG_ORDERQTY), GetOrEmpty(ex, TAG_ORDERQTY)),
       GetOrEmpty(order, TAG_PRICE),
       GetOrEmpty(ex, TAG_AVGPX),
       GetOrEmpty(ex, TAG_LASTMKT) >>

\* the CSV row, in HEADER's order
ComposeRow(order, ex) ==
    << GetOrEmpty(order, TAG_CLORDID),
       GetOrEmpty(order, TAG_TRANSACTTIME),
       GetOrEmpty(ex, TAG_TRANSACTTIME),
       Or(GetOrEmpty(order, TAG_SYMBOL), GetOrEmpty(ex, TAG_SYMBOL)),
       Or(GetOrEmpty(order, TAG_SIDE), GetOrEmpty(ex, TAG_SIDE)),
       Or(GetOrEmpty(order, TAG_ORDERQTY), GetOrEmpty(ex, TAG_ORDERQTY)),
       GetOrEmpty(order, TAG_PRICE),
       GetOrEmpty(ex, TAG_AVGPX),
       GetOrEmpty(ex, TAG_LASTMKT) >>

\* the columns of HEADER
OrderID == 1
OrderTransactTime == 2
ExecutionTransactTime == 3
Symbol == 4
Side == 5
OrderQty == 6
LimitPrice == 7
AvgPx == 8
LastMkt == 9

(***************************************************************************)
(* The lines an input log is drawn from.                                   *)
(***************************************************************************)
Tag(t, v) == Field(t, v)
TextLine(fs, sep) == Join(fs, <<sep>>) \o <<NL>>

A == <<"A">>
B == <<"B">>

OrderLines == {
    \* limit orders for A with three different payloads, the third with empty
    \* and absent fields
    TextLine(<<Tag(TAG_MSGTYPE, <<"D">>), Tag(TAG_CLORDID, A), Tag(TAG_ORDTYPE, <<"2">>),
               Tag(TAG_TRANSACTTIME, <<"1">>), Tag(TAG_SYMBOL, <<"X">>), Tag(TAG_SIDE, <<"1">>),
               Tag(TAG_ORDERQTY, <<"1">>), Tag(TAG_PRICE, <<"1">>)>>, SOH),
    TextLine(<<Tag(TAG_MSGTYPE, <<"D">>), Tag(TAG_CLORDID, A), Tag(TAG_ORDTYPE, <<"2">>),
               Tag(TAG_TRANSACTTIME, <<"2">>), Tag(TAG_SYMBOL, <<"Y">>), Tag(TAG_SIDE, <<"2">>),
               Tag(TAG_ORDERQTY, <<"2">>), Tag(TAG_PRICE, <<"2">>)>>, PIPE),
    TextLine(<<Tag(TAG_MSGTYPE, <<"D">>), Tag(TAG_CLORDID, A), Tag(TAG_ORDTYPE, <<"2">>),
               Tag(TAG_SYMBOL, <<>>), Tag(TAG_ORDERQTY, <<>>)>>, " "),
    \* orders for A that are no limit orders
    TextLine(<<Tag(TAG_MSGTYPE, <<"D">>), Tag(TAG_CLORDID, A), Tag(TAG_ORDTYPE, <<"1">>),
               Tag(TAG_TRANSACTTIME, <<"3">>), Tag(TAG_SYMBOL, <<"Z">>), Tag(TAG_SIDE, <<"3">>),
               Tag(TAG_ORDERQTY, <<"3">>), Tag(TAG_PRICE, <<"3">>)>>, SOH),
    TextLine(<<Tag(TAG_MSGTYPE, <<"D">>), Tag(TAG_CLORDID, A),
               Tag(TAG_TRANSACTTIME, <<"3">>), Tag(TAG_SYMBOL, <<"Z">>)>>, PIPE),
    \* a limit order for B
    TextLine(<<Tag(TAG_MSGTYPE, <<"D">>), Tag(TAG_CLORDID, B), Tag(TAG_ORDTYPE, <<"2">>),
               Tag(TAG_TRANSACTTIME, <<"4">>), Tag(TAG_SYMBOL, <<"W">>), Tag(TAG_SIDE, <<"1">>),
               Tag(TAG_ORDERQTY, <<"4">>), Tag(TAG_PRICE, <<"4">>)>>, SOH),
    \* a limit order with an empty identifier
    TextLine(<<Tag(TAG_MSGTYPE, <<"D">>), Tag(TAG_CLORDID, <<>>), Tag(TAG_ORDTYPE, <<"2">>),
               Tag(TAG_TRANSACTTIME, <<"4">>)>>, PIPE) }

ExecLines == {
    \* full fills: 41=A; 11=A with echoed fields and 40=2; 41=B 11=A; 41= 11=A;
    \* no identifier; 41=A without times and venue
    TextLine(<<Tag(TAG_MSGTYPE, <<"8">>), Tag(TAG_ORIGCLORDID, A), Tag(TAG_EXECTYPE, <<"2">>),
               Tag(TAG_ORDSTATUS, <<"2">>), Tag(TAG_TRANSACTTIME, <<"5">>),
               Tag(TAG_AVGPX, <<"5">>), Tag(TAG_LASTMKT, <<"N">>)>>, SOH),
    TextLine(<<Tag(TAG_MSGTYPE, <<"8">>), Tag(TAG_CLORDID, A), Tag(TAG_ORDTYPE, <<"2">>),
               Tag(TAG_EXECTYPE, <<"2">>), Tag(TAG_ORDSTATUS, <<"2">>),
               Tag(TAG_TRANSACTTIME, <<"6">>), Tag(TAG_AVGPX, <<"6">>),
               Tag(TAG_LASTMKT, <<"M">>), Tag(TAG_SYMBOL, <<"E">>), Tag(TAG_SIDE, <<"E">>),
               Tag(TAG_ORDERQTY, <<"E">>)>>, PIPE),
    TextLine(<<Tag(TAG_MSGTYPE, <<"8">>), Tag(TAG_ORIGCLORDID, B), Tag(TAG_CLORDID, A),
               Tag(TAG_EXECTYPE, <<"2">>), Tag(TAG_ORDSTATUS, <<"2">>),
               Tag(TAG_TRANSACTTIME, <<"7">>), Tag(TAG_AVGPX, <<"7">>),
               Tag(TAG_LASTMKT, <<"N">>)>>, " "),
    TextLine(<<Tag(TAG_MSGTYPE, <<"8">>), Tag(TAG_ORIGCLORDID, <<>>), Tag(TAG_CLORDID, A),
               Tag(TAG_EXECTYPE, <<"2">>), Tag(TAG_ORDSTATUS, <<"2">>),
               Tag(TAG_TRANSACTTIME, <<"8">>), Tag(TAG_AVGPX, <<"8">>),
               Tag(TAG_LASTMKT, <<"M">>)>>, SOH),
    TextLine(<<Tag(TAG_MSGTYPE, <<"8">>), Tag(TAG_EXECTYPE, <<"2">>),
               Tag(TAG_ORDSTATUS, <<"2">>), Tag(TAG_TRANSACTTIME, <<"9">>),
               Tag(TAG_AVGPX, <<"9">>), Tag(TAG_LASTMKT, <<"N">>)>>, PIPE),
    TextLine(<<Tag(TAG_MSGTYPE, <<"8">>), Tag(TAG_ORIGCLORDID, A), Tag(TAG_EXECTYPE, <<"2">>),
               Tag(TAG_ORDSTATUS, <<"2">>), Tag(TAG_LASTMKT, <<>>)>>, SOH),
    \* full fills for A that repeat an order type other than limit
    TextLine(<<Tag(TAG_MSGTYPE, <<"8">>), Tag(TAG_ORIGCLORDID, A), Tag(TAG_ORDTYPE, <<"1">>),
               Tag(TAG_EXECTYPE, <<"2">>), Tag(TAG_ORDSTATUS, <<"2">>),
               Tag(TAG_TRANSACTTIME, <<"5">>), Tag(TAG_AVGPX, <<"5">>),
               Tag(TAG_LASTMKT, <<"N">>)>>, SOH),
    TextLine(<<Tag(TAG_MSGTYPE, <<"8">>), Tag(TAG_ORIGCLORDID, A), Tag(TAG_ORDTYPE, <<>>),
               Tag(TAG_EXECTYPE, <<"2">>), Tag(TAG_ORDSTATUS, <<"2">>),
               Tag(TAG_TRANSACTTIME, <<"6">>), Tag(TAG_AVGPX, <<"5">>),
               Tag(TAG_LASTMKT, <<"N">>)>>, PIPE),
    \* execution reports for A that are no full fill
    TextLine(<<Tag(TAG_MSGTYPE, <<"8">>), Tag(TAG_ORIGCLORDID, A), Tag(TAG_EXECTYPE, <<"1">>),
               Tag(TAG_ORDSTATUS, <<"1">>), Tag(TAG_TRANSACTTIME, <<"5">>),
               Tag(TAG_AVGPX, <<"3">>), Tag(TAG_LASTMKT, <<"N">>)>>, PIPE),
    TextLine(<<Tag(TAG_MSGTYPE, <<"8">>), Tag(TAG_ORIGCLORDID, A), Tag(TAG_EXECTYPE, <<"2">>),
               Tag(TAG_TRANSACTTIME, <<"5">>), Tag(TAG_AVGPX, <<"1">>),
               Tag(TAG_LASTMKT, <<"N">>)>>, " "),
    TextLine(<<Tag(TAG_MSGTYPE, <<"8">>), Tag(TAG_ORIGCLORDID, A), Tag(TAG_ORDSTATUS, <<"2">>),
               Tag(TAG_TRANSACTTIME, <<"5">>), Tag(TAG_AVGPX, <<"0">>),
               Tag(TAG_LASTMKT, <<"N">>)>>, SOH) }

OtherLines == {
    <<NL>>,
    TextLine(<<Tag(TAG_MSGTYPE, <<"0">>), Tag(TAG_CLORDID, A)>>, SOH),
    TextLine(<<Tag(TAG_CLORDID, A), Tag(TAG_ORDTYPE, <<"2">>),
               Tag(TAG_EXECTYPE, <<"2">>), Tag(TAG_ORDSTATUS, <<"2">>)>>, PIPE) }

InputLines == OrderLines \cup ExecLines \cup OtherLines

(***************************************************************************)
(* main: load_orders_and_fills(lines), then build_rows(orders_by_id,       *)
(* fills).  lines is the part of the input the loader has read; fillSrc    *)
(* and rowSrc record the input line each fill and each row came from.      *)
(***************************************************************************)
Init ==
    /\ lines = <<>>
    /\ orders_by_id = EmptyDict
    /\ fills = <<>>
    /\ rows = <<>>
    /\ pc = "load"
    /\ cur = 0
    /\ fillSrc = <<>>
    /\ rowSrc = <<>>
    /\ tokFields = <<>>
    /\ tokOut = NotRun

\* a loader that correlates a fill as soon as it reads it, against the orders
\* read so far, and buffers nothing
LoadLineEager ==
    /\ pc = "load"
    /\ Len(lines) < MaxLines
    /\ \E line \in InputLines :
        LET msg == parse_fix_line(line)
            clid == ResolveClOrdID(msg)
            order == LookupOrder(orders_by_id, clid)
            emits == /\ IsFillLine(msg)
                     /\ Truthy(clid)
                     /\ OrderFound(order)
                     /\ ExecTypeOk(msg)
        IN  /\ lines' = Append(lines, line)
            /\ orders_by_id' = IF IsOrderLine(msg) THEN PutOrder(orders_by_id, msg)
                               ELSE orders_by_id
            /\ rows' = IF emits THEN Append(rows, ComposeRow(order, msg)) ELSE rows
            /\ rowSrc' = IF emits THEN Append(rowSrc, Len(lines) + 1) ELSE rowSrc
    /\ UNCHANGED <<fills, fillSrc, pc, cur, tokFields, tokOut>>

\* one iteration of "for line in lines" of load_orders_and_fills
LoadLine ==
    /\ pc = "load"
    /\ Len(lines) < MaxLines
    /\ \E line \in InputLines :
        LET msg == parse_fix_line(line)
        IN  /\ lines' = Append(lines, line)
            /\ orders_by_id' = IF IsOrderLine(msg) THEN PutOrder(orders_by_id, msg)
                               ELSE orders_by_id
            /\ fills' = IF IsFillLine(msg) THEN Append(fills, msg) ELSE fills
            /\ fillSrc' = IF IsFillLine(msg) THEN Append(fillSrc, Len(lines) + 1)
                          ELSE fillSrc
    /\ UNCHANGED <<rows, pc, cur, rowSrc, tokFields, tokOut>>

\* load_orders_and_fills returns; build_rows starts
LoadReturn ==
    /\ pc = "load"
    /\ pc' = "build"
    /\ cur' = 1
    /\ UNCHANGED <<lines, orders_by_id, fills, rows, fillSrc, rowSrc, tokFields, tokOut>>

\* one iteration of "for ex in fills" of build_rows, by the way it ends
DropNoIdentifier ==
    /\ pc = "build" /\ cur <= Len(fills)
    /\ ~Truthy(ResolveClOrdID(fills[cur]))
    /\ cur' = cur + 1
    /\ UNCHANGED <<lines, orders_by_id, fills, rows, pc, fillSrc, rowSrc, tokFields, tokOut>>

DropNoOrder ==
    /\ pc = "build" /\ cur <= Len(fills)
    /\ Truthy(ResolveClOrdID(fills[cur]))
    /\ ~OrderFound(LookupOrder(orders_by_id, ResolveClOrdID(fills[cur])))
    /\ cur' = cur + 1
    /\ UNCHANGED <<lines, orders_by_id, fills, rows, pc, fillSrc, rowSrc, tokFields, tokOut>>

DropTypeMismatch ==
    /\ pc = "build" /\ cur <= Len(fills)
    /\ Truthy(ResolveClOrdID(fills[cur]))
    /\ OrderFound(LookupOrder(orders_by_id, ResolveClOrdID(fills[cur])))
    /\ ~ExecTypeOk(fills[cur])
    /\ cur' = cur + 1
    /\ UNCHANGED <<lines, orders_by_id, fills, rows, pc, fillSrc, rowSrc, tokFields, tokOut>>

\* an iteration that puts its row in front of the rows
EmitRowInFront ==
    /\ pc = "build" /\ cur <= Len(fills)
    /\ Truthy(ResolveClOrdID(fills[cur]))
    /\ OrderFound(LookupOrder(orders_by_id, ResolveClOrdID(fills[cur])))
    /\ ExecTypeOk(fills[cur])
    /\ rows' = <<ComposeRow(LookupOrder(orders_by_id, ResolveClOrdID(fills[cur])),
                            fills[cur])>> \o rows
    /\ rowSrc' = <<fillSrc[cur]>> \o rowSrc
    /\ cur' = cur + 1
    /\ UNCHANGED <<lines, orders_by_id, fills, pc, fillSrc, tokFields, tokOut>>

EmitRow ==
    /\ pc = "build" /\ cur <= Len(fills)
    /\ Truthy(ResolveClOrdID(fills[cur]))
    /\ OrderFound(LookupOrder(orders_by_id, ResolveClOrdID(fills[cur])))
    /\ ExecTypeOk(fills[cur])
    /\ rows' = Append(rows, ComposeRow(LookupOrder(orders_by_id, ResolveClOrdID(fills[cur])),
                                       fills[cur]))
    /\ rowSrc' = Append(rowSrc, fillSrc[cur])
    /\ cur' = cur + 1
    /\ UNCHANGED <<lines, orders_by_id, fills, pc, fillSrc, tokFields, tokOut>>

\* build_rows returns its rows to main
BuildReturn ==
    /\ pc = "build" /\ cur > Len(fills)
    /\ pc' = "done"
    /\ UNCHANGED <<lines, orders_by_id, fills, rows, cur, fillSrc, rowSrc, tokFields, tokOut>>

\* one iteration of the loop of build_rows
BuildStep == DropNoIdentifier \/ DropNoOrder \/ DropTypeMismatch \/ EmitRow

Next ==
    \/ LoadLine
    \/ LoadReturn
    \/ DropNoIdentifier
    \/ DropNoOrder
    \/ DropTypeMismatch
    \/ EmitRow
    \/ BuildReturn

Spec == Init /\ [][Next]_vars

(***************************************************************************)
(* The tokenizer alone: parse_fix_line on one sequence of fields written   *)
(* with each of the three delimiter conventions.                           *)
(***************************************************************************)
TokInit ==
    /\ tokFields \in SeqsUpTo(TokPairs, MaxFields)
    /\ tokOut = NotRun
    /\ lines = <<>>
    /\ orders_by_id = EmptyDict
    /\ fills = <<>>
    /\ rows = <<>>
    /\ pc = "tokenize"
    /\ cur = 0
    /\ fillSrc = <<>>
    /\ rowSrc = <<>>

Tokenize ==
    /\ pc = "tokenize"
    /\ pc' = "tokenized"
    /\ \E ws \in WhitespaceSeps :
        tokOut' = [soh |-> parse_fix_line(TokLine(tokFields, <<SOH>>)),
                   pipe |-> parse_fix_line(TokLine(tokFields, <<PIPE>>)),
                   space |-> parse_fix_line(TokLine(tokFields, ws)),
                   ws |-> ws]
    /\ UNCHANGED <<lines, orders_by_id, fills, rows, cur, fillSrc, rowSrc, tokFields>>

TokNext == Tokenize

TokSpec == TokInit /\ [][TokNext]_vars

(***************************************************************************)
(* Vocabulary of the properties: the input lines by their tags.            *)
(***************************************************************************)
Tokenized == [l \in InputLines |-> parse_fix_line(l)]

\* the tags of input line k
Msg(k) == Tokenized[lines[k]]

Has(m, t) == t \in DOMAIN m
HasValue(m, t) == t \in DOMAIN m /\ m[t] # <<>>
TagOrEmpty(m, t) == IF t \in DOMAIN m THEN m[t] ELSE <<>>
TagIs(m, t, v) == t \in DOMAIN m /\ m[t] = v

\* line k is a New Order Single (35=D)
NewOrderLine(k) == TagIs(Msg(k), TAG_MSGTYPE, <<"D">>)

\* line k is a New Order Single with a non-empty tag 11 and 40=2
LimitOrderLine(k) ==
    /\ NewOrderLine(k)
    /\ HasValue(Msg(k), TAG_CLORDID)
    /\ TagIs(Msg(k), TAG_ORDTYPE, <<"2">>)

\* line k is an Execution Report (35=8)
ExecReportLine(k) == TagIs(Msg(k), TAG_MSGTYPE, <<"8">>)

\* line k is an Execution Report with 150=2 and 39=2
QualifyingFillLine(k) ==
    /\ ExecReportLine(k)
    /\ TagIs(Msg(k), TAG_EXECTYPE, <<"2">>)
    /\ TagIs(Msg(k), TAG_ORDSTATUS, <<"2">>)

\* the identifier a fill resolves to: tag 41 when it has a value, else tag 11
NoIdentifier == <<"NoIdentifier">>
ResolvedIdentifier(m) ==
    IF HasValue(m, TAG_ORIGCLORDID) THEN m[TAG_ORIGCLORDID]
    ELSE IF HasValue(m, TAG_CLORDID) THEN m[TAG_CLORDID]
    ELSE NoIdentifier

\* line k carries id in tag 11 or in tag 41
UsesIdentifier(k, id) ==
    TagIs(Msg(k), TAG_CLORDID, id) \/ TagIs(Msg(k), TAG_ORIGCLORDID, id)

\* the fill of line k repeats no order type, or repeats 40=2
RepeatsNoOtherType(k) ==
    ~Has(Msg(k), TAG_ORDTYPE) \/ TagIs(Msg(k), TAG_ORDTYPE, <<"2">>)

\* the rows that came from input line k, and the rows of identifier id
RowsFromLine(k) == {j \in 1..Len(rows) : rowSrc[j] = k}
RowsOfIdentifier(id) == {j \in 1..Len(rows) : rows[j][OrderID] = id}

\* the row section 4.4 step 4 describes for order line o and fill line f
FirstNonEmpty(a, b) == IF a # <<>> THEN a ELSE b
JoinedRecord(o, f) ==
    [c \in 1..9 |->
        CASE c = OrderID -> Msg(o)[TAG_CLORDID]
          [] c = OrderTransactTime -> TagOrEmpty(Msg(o), TAG_TRANSACTTIME)
          [] c = ExecutionTransactTime -> TagOrEmpty(Msg(f), TAG_TRANSACTTIME)
          [] c = Symbol -> FirstNonEmpty(TagOrEmpty(Msg(o), TAG_SYMBOL),
                                         TagOrEmpty(Msg(f), TAG_SYMBOL))
          [] c = Side -> FirstNonEmpty(TagOrEmpty(Msg(o), TAG_SIDE),
                                       TagOrEmpty(Msg(f), TAG_SIDE))
          [] c = OrderQty -> FirstNonEmpty(TagOrEmpty(Msg(o), TAG_ORDERQTY),
                                           TagOrEmpty(Msg(f), TAG_ORDERQTY))
          [] c = LimitPrice -> TagOrEmpty(Msg(o), TAG_PRICE)
          [] c = AvgPx -> TagOrEmpty(Msg(f), TAG_AVGPX)
          [] c = LastMkt -> TagOrEmpty(Msg(f), TAG_LASTMKT)]

\* order line o, a later qualifying fill line f that resolves to o's
\* identifier, and no other line that uses the identifier
LonePair(o, f) ==
    /\ o < f
    /\ LimitOrderLine(o)
    /\ QualifyingFillLine(f)
    /\ ResolvedIdentifier(Msg(f)) = Msg(o)[TAG_CLORDID]
    /\ \A k \in 1..Len(lines) : k \notin {o, f} => ~UsesIdentifier(k, Msg(o)[TAG_CLORDID])

\* exactly one row of o's identifier, and it is the joined record of o and f
OneJoinedRow(o, f) ==
    /\ Cardinality(RowsOfIdentifier(Msg(o)[TAG_CLORDID])) = 1
    /\ \A j \in RowsOfIdentifier(Msg(o)[TAG_CLORDID]) :
        rowSrc[j] = f /\ rows[j] = JoinedRecord(o, f)

(***************************************************************************)
(* C1 as stated: every order line (35=D, non-empty 11, 40=2) with a later  *)
(* fill line (35=8, 150=2, 39=2) resolving to its identifier, and no other *)
(* line using the identifier, gives exactly one row, the joined record.    *)
(***************************************************************************)
C1_AsStated ==
    pc = "done" =>
        \A o \in 1..Len(lines), f \in 1..Len(lines) :
            LonePair(o, f) => OneJoinedRow(o, f)

(***************************************************************************)
(* C1 amended: the same, for a fill that repeats no tag 40 or repeats      *)
(* 40=2: exactly one row, with OrderID, OrderTransactTime, LimitPrice from *)
(* the order's tags 11, 60, 44, ExecutionTransactTime, AvgPx, LastMkt from *)
(* the fill's tags 60, 6, 30, and Symbol, Side, OrderQty from the order's  *)
(* tags 55, 54, 38 when non-empty and else from the fill's.                *)
(***************************************************************************)
C1_OnePairOneRow ==
    pc = "done" =>
        \A o \in 1..Len(lines), f \in 1..Len(lines) :
            LonePair(o, f) /\ RepeatsNoOtherType(f) => OneJoinedRow(o, f)

\* a lone pair was joined, the order's symbol empty and the fill's echoed
C1_Witness ==
    /\ pc = "done"
    /\ \E o \in 1..Len(lines), f \in 1..Len(lines) :
        /\ LonePair(o, f) /\ RepeatsNoOtherType(f)
        /\ TagOrEmpty(Msg(o), TAG_SYMBOL) = <<>>
        /\ HasValue(Msg(f), TAG_SYMBOL)
        /\ \E j \in 1..Len(rows) : rows[j][Symbol] = Msg(f)[TAG_SYMBOL]

(***************************************************************************)
(* C2 as stated: every emitted row has a non-empty OrderTransactTime, a    *)
(* non-empty ExecutionTransactTime and a non-empty LastMkt.                *)
(***************************************************************************)
C2_AsStated ==
    \A j \in 1..Len(rows) :
        /\ rows[j][OrderTransactTime] # <<>>
        /\ rows[j][ExecutionTransactTime] # <<>>
        /\ rows[j][LastMkt] # <<>>

\* the last limit order line of identifier id (0 when there is none)
LimitLinesOf(id) == {k \in 1..Len(lines) : LimitOrderLine(k) /\ Msg(k)[TAG_CLORDID] = id}
LastLimitLineOf(id) ==
    IF LimitLinesOf(id) = {} THEN 0
    ELSE CHOOSE k \in LimitLinesOf(id) : \A h \in LimitLinesOf(id) : h <= k

(***************************************************************************)
(* C2 amended: every emitted row has a non-empty OrderID; its              *)
(* OrderTransactTime is empty exactly when the order line it joins has no  *)
(* value in tag 60, its ExecutionTransactTime and LastMkt are empty        *)
(* exactly when its fill line has no value in tag 60, in tag 30.           *)
(***************************************************************************)
C2_RowFieldsAsGiven ==
    \A j \in 1..Len(rows) :
        /\ rows[j][OrderID] # <<>>
        /\ LastLimitLineOf(rows[j][OrderID]) # 0
        /\ rows[j][OrderTransactTime] = <<>>
               <=> ~HasValue(Msg(LastLimitLineOf(rows[j][OrderID])), TAG_TRANSACTTIME)
        /\ rows[j][ExecutionTransactTime] = <<>> <=> ~HasValue(Msg(rowSrc[j]), TAG_TRANSACTTIME)
        /\ rows[j][LastMkt] = <<>> <=> ~HasValue(Msg(rowSrc[j]), TAG_LASTMKT)

\* a row with an empty order time, and a row with empty execution time and venue
C2_Witness ==
    /\ \E j \in 1..Len(rows) : rows[j][OrderTransactTime] = <<>>
    /\ \E j \in 1..Len(rows) :
        rows[j][ExecutionTransactTime] = <<>> /\ rows[j][LastMkt] = <<>>

\* the New Order Single lines that carry id in tag 11
OrderLinesOf(id) == {k \in 1..Len(lines) : NewOrderLine(k) /\ TagIs(Msg(k), TAG_CLORDID, id)}

\* row j carries the order fields of line o (and, where line o has none, the
\* fill's echoed symbol, side and quantity)
RowCarriesOrder(j, o) == rows[j] = JoinedRecord(o, rowSrc[j])

(***************************************************************************)
(* C3 as stated: with two New Order Single lines of one identifier, every  *)
(* row of the identifier carries the fields of the later line, whatever    *)
(* the later line's order type and whichever of its fields are empty.      *)
(***************************************************************************)
C3_AsStated ==
    pc = "done" =>
        \A a \in 1..Len(lines), b \in 1..Len(lines) :
            /\ a < b
            /\ HasValue(Msg(b), TAG_CLORDID)
            /\ {a, b} \subseteq OrderLinesOf(Msg(b)[TAG_CLORDID])
            /\ \A k \in OrderLinesOf(Msg(b)[TAG_CLORDID]) : k <= b
            => \A j \in RowsOfIdentifier(Msg(b)[TAG_CLORDID]) : RowCarriesOrder(j, b)

(***************************************************************************)
(* C3 amended: with two New Order Single lines of one identifier, the      *)
(* later one a limit order (40=2) that no limit order of the identifier    *)
(* follows, every row of the identifier carries the later line's           *)
(* timestamp, symbol, side, quantity and limit price, whichever of them    *)
(* are empty, and none of the earlier line's.                              *)
(***************************************************************************)
C3_LaterLimitOrderWins ==
    pc = "done" =>
        \A a \in 1..Len(lines), b \in 1..Len(lines) :
            /\ a < b
            /\ LimitOrderLine(b)
            /\ a \in OrderLinesOf(Msg(b)[TAG_CLORDID])
            /\ \A k \in LimitLinesOf(Msg(b)[TAG_CLORDID]) : k <= b
            => \A j \in RowsOfIdentifier(Msg(b)[TAG_CLORDID]) : RowCarriesOrder(j, b)

\* two limit orders of one identifier, the earlier with a symbol and a time,
\* the later without, and a row of the identifier
C3_Witness ==
    /\ pc = "done"
    /\ \E a \in 1..Len(lines), b \in 1..Len(lines) :
        /\ a < b
        /\ LimitOrderLine(a) /\ LimitOrderLine(b)
        /\ Msg(a)[TAG_CLORDID] = Msg(b)[TAG_CLORDID]
        /\ HasValue(Msg(a), TAG_SYMBOL) /\ HasValue(Msg(a), TAG_TRANSACTTIME)
        /\ ~HasValue(Msg(b), TAG_SYMBOL) /\ ~HasValue(Msg(b), TAG_TRANSACTTIME)
        /\ \E j \in RowsOfIdentifier(Msg(b)[TAG_CLORDID]) :
            rows[j][Symbol] = <<>> /\ rows[j][OrderTransactTime] = <<>>

\* line k is a New Order Single with an identifier and an order type that is
\* absent or not "2"
NonLimitOrderLine(k) ==
    /\ NewOrderLine(k)
    /\ HasValue(Msg(k), TAG_CLORDID)
    /\ ~TagIs(Msg(k), TAG_ORDTYPE, <<"2">>)

\* the qualifying fill lines that resolve to id
FillLinesOf(id) ==
    {f \in 1..Len(lines) : QualifyingFillLine(f) /\ ResolvedIdentifier(Msg(f)) = id}

(***************************************************************************)
(* C4 as stated: in any input with a New Order Single line whose tag 40 is *)
(* absent or not "2", every qualifying fill that resolves to the line's    *)
(* identifier is dropped, whatever other lines the input contains.         *)
(***************************************************************************)
C4_AsStated ==
    pc = "done" =>
        \A k \in 1..Len(lines) :
            NonLimitOrderLine(k) =>
                \A f \in FillLinesOf(Msg(k)[TAG_CLORDID]) : RowsFromLine(f) = {}

(***************************************************************************)
(* C4 amended: a New Order Single line whose tag 40 is absent or not "2"   *)
(* is never stored (every stored order is the record of a limit order line *)
(* and has 40=2), and every qualifying fill that resolves to its           *)
(* identifier is dropped unless the input also has a limit order line      *)
(* (40=2) of the same identifier.                                          *)
(***************************************************************************)
C4_NonLimitNeverStored ==
    /\ \A id \in DOMAIN orders_by_id :
        LET o == LastLimitLineOf(id)
        IN  /\ orders_by_id[id][TAG_ORDTYPE] = <<"2">>
            /\ o # 0
            /\ orders_by_id[id][TAG_TRANSACTTIME] = TagOrEmpty(Msg(o), TAG_TRANSACTTIME)
            /\ orders_by_id[id][TAG_PRICE] = TagOrEmpty(Msg(o), TAG_PRICE)
    /\ pc = "done" =>
        \A k \in 1..Len(lines) :
            NonLimitOrderLine(k) /\ LimitLinesOf(Msg(k)[TAG_CLORDID]) = {} =>
                \A f \in FillLinesOf(Msg(k)[TAG_CLORDID]) : RowsFromLine(f) = {}

\* a market order, a qualifying fill that resolves to its identifier and
\* repeats no other order type, and no row from the fill
C4_Witness ==
    /\ pc = "done"
    /\ \E k \in 1..Len(lines) :
        /\ NonLimitOrderLine(k)
        /\ TagIs(Msg(k), TAG_ORDTYPE, <<"1">>)
        /\ LimitLinesOf(Msg(k)[TAG_CLORDID]) = {}
        /\ \E f \in FillLinesOf(Msg(k)[TAG_CLORDID]) :
            k < f /\ RepeatsNoOtherType(f) /\ RowsFromLine(f) = {}

(***************************************************************************)
(* C5 as stated: parse_fix_line returns the same field map for the fields  *)
(* joined with SOH, with '|' and with whitespace, values containing '|',   *)
(* ' ' or '=' included.                                                    *)
(***************************************************************************)
C5_AsStated ==
    pc = "tokenized" => tokOut.soh = tokOut.pipe /\ tokOut.pipe = tokOut.space

\* no identifier and no value of the fields holds a separator character
SeparatorFree(fs) ==
    \A k \in 1..Len(fs) : \A part \in {fs[k][1], fs[k][2]} : \A n \in 1..Len(part) :
        part[n] \notin {SOH, PIPE} \cup Whitespace

\* the map of the fields: the last occurrence of an identifier wins
FieldMap(fs) ==
    [id \in {fs[k][1] : k \in 1..Len(fs)} |->
        fs[CHOOSE k \in 1..Len(fs) :
              fs[k][1] = id /\ \A h \in (k + 1)..Len(fs) : fs[h][1] # id][2]]

(***************************************************************************)
(* C5 amended: for fields whose identifiers and values hold no SOH, no     *)
(* '|' and no whitespace (a value may hold '='), parse_fix_line returns    *)
(* the same field map for the three delimiter conventions: each            *)
(* identifier mapped to its last value, the value intact.                  *)
(***************************************************************************)
C5_DelimiterIndependent ==
    pc = "tokenized" /\ SeparatorFree(tokFields) =>
        /\ tokOut.soh = FieldMap(tokFields)
        /\ tokOut.pipe = FieldMap(tokFields)
        /\ tokOut.space = FieldMap(tokFields)

\* two fields of different identifiers, a value that is "=", tokenized alike
C5_Witness ==
    /\ pc = "tokenized"
    /\ SeparatorFree(tokFields)
    /\ Len(tokFields) = 2
    /\ tokFields[1][1] # tokFields[2][1]
    /\ tokFields[1][2] = <<EQ>>
    /\ tokOut.pipe = tokOut.soh /\ tokOut.space = tokOut.soh
    /\ tokOut.soh[tokFields[1][1]] = <<EQ>>

\* line k is an Execution Report that is no full fill
NotFullFillLine(k) == ExecReportLine(k) /\ ~QualifyingFillLine(k)

(***************************************************************************)
(* C6: an Execution Report line whose tag 150 is not "2" or whose tag 39   *)
(* is not "2" (absent included) is never appended to the buffered fills    *)
(* and never contributes a row, even when a stored limit order matches.    *)
(***************************************************************************)
C6_OnlyFullFillsBuffered ==
    /\ Len(fillSrc) = Len(fills)
    /\ \A n \in 1..Len(fills) : fills[n] = Msg(fillSrc[n])
    /\ \A k \in 1..Len(lines) :
        NotFullFillLine(k) =>
            /\ \A n \in 1..Len(fillSrc) : fillSrc[n] # k
            /\ RowsFromLine(k) = {}

\* a partial fill of a stored limit order, after the order, and no row
C6_Witness ==
    /\ pc = "done"
    /\ rows = <<>>
    /\ \E o \in 1..Len(lines), k \in 1..Len(lines) :
        /\ o < k
        /\ LimitOrderLine(o)
        /\ NotFullFillLine(k)
        /\ ResolvedIdentifier(Msg(k)) = Msg(o)[TAG_CLORDID]
        /\ Msg(o)[TAG_CLORDID] \in DOMAIN orders_by_id

\* the identifiers of the limit order lines of the input
LimitIdentifiers == {Msg(k)[TAG_CLORDID] : k \in {h \in 1..Len(lines) : LimitOrderLine(h)}}

\* the fill of line f gives exactly one row, of identifier id
GivesRowOf(f, id) ==
    Cardinality(RowsFromLine(f)) = 1 /\ \A j \in RowsFromLine(f) : rows[j][OrderID] = id

(***************************************************************************)
(* C7 as stated: for a qualifying fill the store is looked up with tag 41  *)
(* when the tag is present, with tag 11 only when tag 41 is absent; a fill *)
(* with neither tag yields no row.                                         *)
(***************************************************************************)
C7_AsStated ==
    pc = "done" =>
        \A f \in 1..Len(lines) :
            QualifyingFillLine(f) =>
                /\ Has(Msg(f), TAG_ORIGCLORDID) =>
                    \A j \in RowsFromLine(f) : rows[j][OrderID] = Msg(f)[TAG_ORIGCLORDID]
                /\ ~Has(Msg(f), TAG_ORIGCLORDID) /\ Has(Msg(f), TAG_CLORDID) =>
                    \A j \in RowsFromLine(f) : rows[j][OrderID] = Msg(f)[TAG_CLORDID]
                /\ ~Has(Msg(f), TAG_ORIGCLORDID) /\ ~Has(Msg(f), TAG_CLORDID) =>
                    RowsFromLine(f) = {}

(***************************************************************************)
(* C7 amended: for a qualifying fill the store is looked up with tag 41    *)
(* when the tag is present and not empty, and with tag 11 when tag 41 is   *)
(* absent or empty, never as a second attempt after a tag-41 lookup        *)
(* misses; a fill with neither tag yields no row.                          *)
(***************************************************************************)
C7_LookupKey ==
    pc = "done" =>
        \A f \in 1..Len(lines) :
            QualifyingFillLine(f) =>
                LET key == IF HasValue(Msg(f), TAG_ORIGCLORDID) THEN Msg(f)[TAG_ORIGCLORDID]
                           ELSE TagOrEmpty(Msg(f), TAG_CLORDID)
                IN  /\ key \in LimitIdentifiers /\ RepeatsNoOtherType(f) => GivesRowOf(f, key)
                    /\ key \notin LimitIdentifiers => RowsFromLine(f) = {}
                    /\ ~Has(Msg(f), TAG_ORIGCLORDID) /\ ~Has(Msg(f), TAG_CLORDID) =>
                        RowsFromLine(f) = {}

\* a fill whose tag 41 misses while its tag 11 would hit, and no row from
\* it; and a fill without tag 41 and tag 11 beside a stored order
C7_Witness ==
    /\ pc = "done"
    /\ orders_by_id # EmptyDict
    /\ \E f \in 1..Len(lines), g \in 1..Len(lines) :
        /\ QualifyingFillLine(f)
        /\ HasValue(Msg(f), TAG_ORIGCLORDID) /\ HasValue(Msg(f), TAG_CLORDID)
        /\ Msg(f)[TAG_ORIGCLORDID] \notin DOMAIN orders_by_id
        /\ Msg(f)[TAG_CLORDID] \in DOMAIN orders_by_id
        /\ RowsFromLine(f) = {}
        /\ QualifyingFillLine(g)
        /\ ~Has(Msg(g), TAG_ORIGCLORDID) /\ ~Has(Msg(g), TAG_CLORDID)
        /\ RowsFromLine(g) = {}

(***************************************************************************)
(* C8: a qualifying fill that carries tag 40 with a value other than "2"   *)
(* yields no row even when its identifier resolves to a stored limit       *)
(* order; a qualifying fill without tag 40 is not dropped by this check;   *)
(* the drop raises nothing, the loop goes on to the remaining fills.       *)
(***************************************************************************)
C8_TypeMismatchDropped ==
    /\ pc = "build" /\ cur <= Len(fills) => ENABLED BuildStep
    /\ pc = "done" =>
        /\ cur = Len(fills) + 1
        /\ \A f \in 1..Len(lines) :
            QualifyingFillLine(f) =>
                /\ Has(Msg(f), TAG_ORDTYPE) /\ Msg(f)[TAG_ORDTYPE] # <<"2">> =>
                    RowsFromLine(f) = {}
                /\ ~Has(Msg(f), TAG_ORDTYPE)
                   /\ ResolvedIdentifier(Msg(f)) \in LimitIdentifiers =>
                    Cardinality(RowsFromLine(f)) = 1

\* a fill of a stored limit order that repeats 40=1 and gives no row, and a
\* later fill without tag 40 that gives one
C8_Witness ==
    /\ pc = "done"
    /\ \E f \in 1..Len(lines), g \in 1..Len(lines) :
        /\ f < g
        /\ QualifyingFillLine(f) /\ QualifyingFillLine(g)
        /\ TagIs(Msg(f), TAG_ORDTYPE, <<"1">>)
        /\ ResolvedIdentifier(Msg(f)) \in DOMAIN orders_by_id
        /\ RowsFromLine(f) = {}
        /\ ~Has(Msg(g), TAG_ORDTYPE)
        /\ RowsFromLine(g) # {}

\* the qualifying fill lines that resolve to a stored order and pass the
\* check on the order type
JoinedFillLines ==
    {f \in 1..Len(lines) :
        /\ QualifyingFillLine(f)
        /\ ResolvedIdentifier(Msg(f)) \in LimitIdentifiers
        /\ RepeatsNoOtherType(f)}

(***************************************************************************)
(* C9: the rows correspond one to one and in order to the qualifying fill  *)
(* lines that resolve to a stored order and pass the type check: each such *)
(* fill gives exactly one row, no row is without such a fill, and the rows *)
(* are in the order of their fill lines.                                   *)
(***************************************************************************)
C9_RowsFollowFills ==
    pc = "done" =>
        /\ Len(rowSrc) = Len(rows)
        /\ {rowSrc[j] : j \in 1..Len(rows)} = JoinedFillLines
        /\ \A f \in JoinedFillLines : Cardinality(RowsFromLine(f)) = 1
        /\ \A i \in 1..Len(rows), j \in 1..Len(rows) : i < j => rowSrc[i] < rowSrc[j]
        /\ \A j \in 1..Len(rows) :
            /\ rows[j][OrderID] = ResolvedIdentifier(Msg(rowSrc[j]))
            /\ rows[j][ExecutionTransactTime] = TagOrEmpty(Msg(rowSrc[j]), TAG_TRANSACTTIME)
            /\ rows[j][AvgPx] = TagOrEmpty(Msg(rowSrc[j]), TAG_AVGPX)
            /\ rows[j][LastMkt] = TagOrEmpty(Msg(rowSrc[j]), TAG_LASTMKT)

\* two rows with different prices, from two fill lines on either side of
\* their order line
C9_Witness ==
    /\ pc = "done"
    /\ Len(rows) = 2
    /\ rows[1][AvgPx] # rows[2][AvgPx]
    /\ rowSrc[1] = 1 /\ rowSrc[2] = 3
    /\ LimitOrderLine(2)

\* the store the whole input gives: the last limit order line of each identifier
StoreIsFinal ==
    /\ DOMAIN orders_by_id = LimitIdentifiers
    /\ \A id \in DOMAIN orders_by_id :
        LET m == Msg(LastLimitLineOf(id))
        IN  /\ orders_by_id[id][TAG_CLORDID] = id
            /\ \A t \in {TAG_TRANSACTTIME, TAG_SYMBOL, TAG_SIDE, TAG_ORDERQTY, TAG_PRICE} :
                orders_by_id[id][t] = TagOrEmpty(m, t)

(***************************************************************************)
(* C10: every lookup is made against the store built from all the lines:   *)
(* a qualifying fill whose line precedes its order's line is joined, a     *)
(* fill between two limit orders of one identifier is joined with the      *)
(* later order's fields, and no row is emitted before the store is final.  *)
(***************************************************************************)
C10_JoinAgainstFinalStore ==
    /\ pc = "load" => rows = <<>>
    /\ pc \in {"build", "done"} => StoreIsFinal
    /\ pc = "done" =>
        \A f \in JoinedFillLines :
            /\ RowsFromLine(f) # {}
            /\ \A j \in RowsFromLine(f) :
                RowCarriesOrder(j, LastLimitLineOf(ResolvedIdentifier(Msg(f))))

\* a fill between two limit orders of its identifier, joined with the time
\* of the later one
C10_Witness ==
    /\ pc = "done"
    /\ \E a \in 1..Len(lines), f \in 1..Len(lines), b \in 1..Len(lines) :
        /\ a < f /\ f < b
        /\ LimitOrderLine(a) /\ LimitOrderLine(b) /\ QualifyingFillLine(f)
        /\ Msg(a)[TAG_CLORDID] = Msg(b)[TAG_CLORDID]
        /\ ResolvedIdentifier(Msg(f)) = Msg(b)[TAG_CLORDID]
        /\ HasValue(Msg(b), TAG_TRANSACTTIME)
        /\ TagOrEmpty(Msg(a), TAG_TRANSACTTIME) # Msg(b)[TAG_TRANSACTTIME]
        /\ \E j \in RowsFromLine(f) : rows[j][OrderTransactTime] = Msg(b)[TAG_TRANSACTTIME]

====
